---- MODULE Spec2Model ----
(***************************************************************************)
(* Model of pkg/plugin/plugin.go of kubectl-status: the status-rendering   *)
(* pipeline (resolve, augment, bind functions, compile, select rule,       *)
(* execute, print, collect errors) and the pure helpers it relies on.      *)
(***************************************************************************)
EXTENDS Integers, Sequences, FiniteSets, TLC

VARIABLES
    args,       \* inputs of the pure function under check (SpecFn)
    ret,        \* [applied, val]: its result once the function has been applied
    funcMap,    \* the package-level template function map (process-wide)
    pc,         \* per caller thread: position in the exported entry point
    query,      \* per caller thread: the ResourceStatusQuery value in use
    infos,      \* per caller thread: resourceInfos being iterated
    idx,        \* per caller thread: index of the next resourceInfo
    errs,       \* per caller thread: allRenderErrs / returned errors
    stdout,     \* per caller thread: what the call printed so far
    stack,      \* per caller thread: RenderResource / renderTemplateForMap frames
    done,       \* per caller thread: per-object record of what ran
    renders     \* per caller thread: objects the call has to render so far

fnVars == <<args, ret>>
procVars == <<funcMap, pc, query, infos, idx, errs, stdout, stack, done, renders>>
vars == <<args, ret, funcMap, pc, query, infos, idx, errs, stdout, stack, done, renders>>

(***************************************************************************)
(* Bounds of the model.                                                    *)
(***************************************************************************)
MaxSvcs == 2
MaxReplicas == 3
\* Objects one exported call renders, resolved by the query or included inline.
MaxRenders == 2

(***************************************************************************)
(* Go values.                                                              *)
(***************************************************************************)
Keys == {"app", "tier"}
Vals == {"", "x"}
\* map[string]string over the keys above; the empty function is the empty
\* (or nil) map.
StrMaps == UNION {[D -> Vals] : D \in SUBSET Keys}
EmptyMap == [k \in {} |-> ""]
\* b[k] on a Go map: the zero value "" when the key is absent.
MapGet(b, k) == IF k \in DOMAIN b THEN b[k] ELSE ""

SeqsUpTo(S, n) == UNION {[1..m -> S] : m \in 0..n}

(***************************************************************************)
(* isSubset, plugin.go:203-211.                                            *)
(***************************************************************************)
isSubset(a, b) == \A k \in DOMAIN a : a[k] = MapGet(b, k)

(***************************************************************************)
(* GetKubeGetServicesMatchingPod, plugin.go:180-201.  svcItems is          *)
(* svcs.Items, podMap the pod's unstructured map.                          *)
(***************************************************************************)
ServiceTypes == {"ClusterIP", "ExternalName"}
Services == [type : ServiceTypes, selector : StrMaps]
PodMaps == [kind : {"Pod"}, labels : StrMaps]

\* ToUnstructured(&svc) after SetGroupVersionKind(v1, Service).
SvcUnstructured(svc) ==
    [apiVersion |-> "v1", kind |-> "Service",
     type |-> svc.type, selector |-> svc.selector]

RECURSIVE MatchingFrom(_, _, _)
MatchingFrom(svcItems, labels, i) ==
    IF i > Len(svcItems) THEN <<>>
    ELSE LET svc == svcItems[i]
             rest == MatchingFrom(svcItems, labels, i + 1)
         IN  IF svc.type = "ExternalName" THEN rest
             ELSE IF isSubset(svc.selector, labels)
                  THEN <<SvcUnstructured(svc)>> \o rest
                  ELSE rest

RECURSIVE MatchingFromNoSkip(_, _, _)
MatchingFromNoSkip(svcItems, labels, i) ==
    IF i > Len(svcItems) THEN <<>>
    ELSE LET svc == svcItems[i]
             rest == MatchingFromNoSkip(svcItems, labels, i + 1)
         IN  IF isSubset(svc.selector, labels)
             THEN <<SvcUnstructured(svc)>> \o rest
             ELSE rest

KubeGetServicesMatchingPodNoSkip(svcItems, podMap) ==
    MatchingFromNoSkip(svcItems, podMap.labels, 1)

KubeGetServicesMatchingPod(svcItems, podMap) ==
    MatchingFrom(svcItems, podMap.labels, 1)

(***************************************************************************)
(* findTemplateName, plugin.go:356-365.  tmpl is the set of template names *)
(* the compiled template knows (tmpl.Lookup(kind) != nil iff kind is one). *)
(***************************************************************************)
RuleNames == {"Deployment", "Pod", "Node", "DefaultResource", "Widget"}

findTemplateNameAlwaysKind(tmpl, kind) == kind

findTemplateName(tmpl, kind) ==
    IF kind \in tmpl THEN kind ELSE "DefaultResource"

(***************************************************************************)
(* The banner part of template "Deployment", plugin.go:428-452.            *)
(* A status field is a number or absent; the result is the sequence of     *)
(* banners written, each with the number it prints.  The counters are      *)
(* integers, as in an object read from the cluster.                        *)
(***************************************************************************)
\* A status field: <<>> when the key is absent, <<n>> when it holds n.
Absent == <<>>
Counts == {Absent} \cup {<<n>> : n \in 0..MaxReplicas}
\* sprig's default with 0: the given value unless it is empty (absent or 0).
Default0(v) == IF v = Absent THEN 0 ELSE v[1]
\* text/template truth of a number or a missing key: absent and 0 are false.
Truth(v) == Default0(v) # 0

DeploymentBannersNoElse(status, rolloutDone) ==
    LET replicas == Default0(status.replicas)
        readyReplicas == Default0(status.readyReplicas)
    IN  (IF readyReplicas = 0
         THEN <<[banner |-> "Outage"]>> ELSE <<>>)
        \o (IF replicas # readyReplicas /\ rolloutDone
            THEN <<[banner |-> "Not Ready Replicas", n |-> replicas - readyReplicas]>>
            ELSE <<>>)
        \o (IF Truth(status.unavailableReplicas) /\ rolloutDone
            THEN <<[banner |-> "Unavailable Replicas", n |-> status.unavailableReplicas[1]]>>
            ELSE <<>>)

DeploymentBanners(status, rolloutDone) ==
    LET replicas == Default0(status.replicas)            \* line 428
        readyReplicas == Default0(status.readyReplicas)  \* line 429
    IN  IF readyReplicas = 0                         \* line 442
        THEN <<[banner |-> "Outage"]>>
        ELSE IF replicas # readyReplicas                 \* line 444
        THEN IF rolloutDone
             THEN <<[banner |-> "Not Ready Replicas", n |-> replicas - readyReplicas]>>
             ELSE <<>>
        ELSE IF Truth(status.unavailableReplicas)        \* line 448
        THEN IF rolloutDone
             THEN <<[banner |-> "Unavailable Replicas", n |-> status.unavailableReplicas[1]]>>
             ELSE <<>>
        ELSE <<>>

DeploymentStatuses ==
    [replicas : Counts, readyReplicas : Counts, unavailableReplicas : Counts]

(***************************************************************************)
(* Pure functions: Init draws the inputs, one action applies each.         *)
(***************************************************************************)
FnInputs ==
    [fn : {"isSubset"}, a : StrMaps, b : StrMaps]
    \cup [fn : {"findTemplateName"}, tmpl : SUBSET RuleNames, kind : RuleNames]
    \cup [fn : {"kubeGetServicesMatchingPod"},
          svcItems : SeqsUpTo(Services, MaxSvcs), podMap : PodMaps]
    \cup [fn : {"Deployment"}, status : DeploymentStatuses, rolloutDone : BOOLEAN]

ApplyIsSubset ==
    /\ ~ret.applied /\ args.fn = "isSubset"
    /\ ret' = [applied |-> TRUE, val |-> isSubset(args.a, args.b)]
    /\ UNCHANGED <<args, procVars>>

ApplyFindTemplateName ==
    /\ ~ret.applied /\ args.fn = "findTemplateName"
    /\ ret' = [applied |-> TRUE, val |-> findTemplateName(args.tmpl, args.kind)]
    /\ UNCHANGED <<args, procVars>>

ApplyKubeGetServicesMatchingPod ==
    /\ ~ret.applied /\ args.fn = "kubeGetServicesMatchingPod"
    /\ ret' = [applied |-> TRUE, val |-> KubeGetServicesMatchingPod(args.svcItems, args.podMap)]
    /\ UNCHANGED <<args, procVars>>

ApplyDeployment ==
    /\ ~ret.applied /\ args.fn = "Deployment"
    /\ ret' = [applied |-> TRUE, val |-> DeploymentBanners(args.status, args.rolloutDone)]
    /\ UNCHANGED <<args, procVars>>

(***************************************************************************)
(* The rendering pipeline.                                                 *)
(***************************************************************************)
Threads == {"t1", "t2"}

\* ResourceStatusQuery values, plugin.go:56-65.  A query is a Go value: two
\* queries are the same query iff their fields agree.  Only the fields the
\* code branches on are kept; the others only steer the resolution, whose
\* result the environment chooses.
Namespaces == {"", "prod"}
Queries == [namespace : Namespaces, allNamespaces : BOOLEAN]
NoQuery == [namespace |-> "", allNamespaces |-> FALSE]

\* Names renderTemplateForMap rebinds in funcMap, plugin.go:339-345.
DataFuncs ==
    {"kubeGet", "kubeGetByLabelsMap", "kubeGetServicesMatchingPod",
     "kubeGetFirst", "includeObj", "includeOwners", "getEvents"}

\* A funcMap entry: the placeholder that reads nothing and returns an empty
\* result, or the closure a query's Get...Func() returned.
Stub == [bound |-> FALSE]
BoundTo(q) == [bound |-> TRUE, q |-> q]

\* The package-level funcMap as the program starts: placeholders only.
InitialFuncMap == [f \in DataFuncs |-> Stub]

\* getFuncMap(): the entries of the package-level funcMap as they are now.
getFuncMap(fm) == fm

\* renderTemplateForMap, plugin.go:336-346: the rebinding of funcMap.
Bind(fm, queries) ==
    IF Len(queries) > 0
    THEN [f \in DataFuncs |-> BoundTo(queries[1])]
    ELSE fm

\* kindInjectFuncMap, plugin.go:299-304.
kindInjectFuncMap(kind) ==
    CASE kind = "Node" -> <<"includePodDetailsOnNode", "includeNodeStatsSummary">>
      [] kind = "Pod" -> <<"includePodMetrics">>
      [] kind = "StatefulSet" -> <<"includeStatefulSetDiff">>
      [] kind = "Ingress" -> <<"includeIngressServices">>
      [] OTHER -> <<>>

\* Template blocks of templates.tmpl, plugin.go:421-481, and the reserved
\* default block findTemplateName falls back to.
RegisteredRules == {"Deployment", "recent_deployment_rollouts", "DefaultResource"}

\* Kinds of the objects the environment resolves.
ObjKinds == {"Node", "Deployment"}
Objs == [kind : ObjKinds]

Err(msg) == <<[msg |-> msg]>>
NoErr == <<>>

\* A RenderResource / renderTemplateForMap activation.
NewFrame(queries, obj, at) ==
    [queries |-> queries, obj |-> obj, pc |-> at, invoked |-> <<>>,
     tmpl |-> <<>>, rule |-> "", executed |-> FALSE,
     call |-> <<>>, pending |-> <<>>, inclOut |-> <<>>,
     out |-> <<>>, err |-> NoErr]

Top(t) == stack[t][Len(stack[t])]
SetTop(t, f) == [stack EXCEPT ![t][Len(stack[t])] = f]
Pop(s) == SubSeq(s, 1, Len(s) - 1)

InitProc ==
    /\ funcMap = InitialFuncMap
    /\ pc = [t \in Threads |-> "idle"]
    /\ query = [t \in Threads |-> NoQuery]
    /\ infos = [t \in Threads |-> <<>>]
    /\ idx = [t \in Threads |-> 1]
    /\ errs = [t \in Threads |-> <<>>]
    /\ stdout = [t \in Threads |-> <<>>]
    /\ stack = [t \in Threads |-> <<>>]
    /\ done = [t \in Threads |-> <<>>]
    /\ renders = [t \in Threads |-> 0]

\* RenderResource up to its augmentor loop, plugin.go:290-306: the frame a
\* call starts in, or the frame of a call that failed a conversion (conv is
\* "ok", or which of the two conversions failed).
RenderResourceEntry(q, obj, conv) ==
    IF conv = "unstructured"
    THEN [NewFrame(<<q>>, obj, "ret") EXCEPT
            !.err = Err("Failed getting unstructured object")]
    ELSE IF conv = "restconfig"
    THEN [NewFrame(<<q>>, obj, "ret") EXCEPT
            !.err = Err("Failed getting rest config")]
    ELSE NewFrame(<<q>>, obj,
                  IF Len(kindInjectFuncMap(obj.kind)) = 0 THEN "bind" ELSE "augment")
ConvOutcomes == {"ok", "unstructured", "restconfig"}

\* The notice getQueriedResources prints for an empty result, plugin.go:95-101.
NoticeAlwaysQualified(q) == <<"No resources found in ", q.namespace, " namespace\n">>

Notice(q) ==
    IF ~q.allNamespaces /\ q.namespace # ""
    THEN <<"No resources found in ", q.namespace, " namespace\n">>
    ELSE <<"No resources found.\n">>

\* PrintRenderedQueriedResources with getQueriedResources, plugin.go:79-122,
\* up to the first iteration of PrintRenderedResourceInfos.  The environment
\* chooses whether the query fails and which objects it resolves.
PrintRenderedQueriedResources(t) ==
    /\ pc[t] = "idle"
    /\ \E q \in Queries :
         /\ query' = [query EXCEPT ![t] = q]
         /\ \/ /\ errs' = [errs EXCEPT ![t] = Err("Failed getting resource infos")]
               /\ pc' = [pc EXCEPT ![t] = "failedQuery"]
               /\ UNCHANGED <<infos, stdout, renders>>
            \/ \E resourceInfos \in SeqsUpTo(Objs, MaxRenders) :
                 /\ infos' = [infos EXCEPT ![t] = resourceInfos]
                 /\ renders' = [renders EXCEPT ![t] = Len(resourceInfos)]
                 /\ stdout' = [stdout EXCEPT ![t] =
                        IF Len(resourceInfos) = 0 THEN <<Notice(q)>> ELSE <<>>]
                 /\ errs' = [errs EXCEPT ![t] = <<>>]
                 /\ pc' = [pc EXCEPT ![t] = "loop"]
    /\ idx' = [idx EXCEPT ![t] = 1]
    /\ UNCHANGED <<funcMap, stack, done, fnVars>>

\* PrintRenderedResourceInfos, plugin.go:107-108: the next resourceInfo is
\* handed to PrintRenderedResource, which calls RenderResource.
PrintRenderedResource(t) ==
    /\ pc[t] = "loop" /\ stack[t] = <<>> /\ idx[t] <= Len(infos[t])
    /\ \E conv \in ConvOutcomes :
         stack' = [stack EXCEPT ![t] =
                      <<RenderResourceEntry(query[t], infos[t][idx[t]], conv)>>]
    /\ UNCHANGED <<funcMap, pc, query, infos, idx, errs, stdout, done, renders, fnVars>>

\* PrintRenderedResourceInfos, plugin.go:113: the loop is over.
PrintRenderedResourceInfosReturn(t) ==
    /\ pc[t] = "loop" /\ stack[t] = <<>> /\ idx[t] > Len(infos[t])
    /\ pc' = [pc EXCEPT ![t] = "returnedAll"]
    /\ UNCHANGED <<funcMap, query, infos, idx, errs, stdout, stack, done, renders, fnVars>>

\* One iteration of the augmentor loop of RenderResource, plugin.go:307-312.
\* next is the position of the augmentor to call, failed the environment's
\* choice of its result.
AugmentStepKeepGoing(f, next, failed) ==
    LET functions == kindInjectFuncMap(f.obj.kind)
        g == [f EXCEPT !.invoked = Append(@, functions[next]),
                       !.err = IF failed THEN Err(functions[next]) ELSE @]
    IN  IF next = Len(functions)
        THEN [g EXCEPT !.pc = IF g.err # NoErr THEN "ret" ELSE "bind"]
        ELSE g

AugmentStep(f, next, failed) ==
    LET functions == kindInjectFuncMap(f.obj.kind)
        g == [f EXCEPT !.invoked = Append(@, functions[next])]
    IN  IF failed
        THEN [g EXCEPT !.pc = "ret", !.err = Err(functions[next])]
        ELSE IF next = Len(functions) THEN [g EXCEPT !.pc = "bind"] ELSE g

Augment(t) ==
    /\ stack[t] # <<>> /\ Top(t).pc = "augment"
    /\ \E failed \in BOOLEAN :
         stack' = SetTop(t, AugmentStep(Top(t), Len(Top(t).invoked) + 1, failed))
    /\ UNCHANGED <<funcMap, pc, query, infos, idx, errs, stdout, done, renders, fnVars>>

\* renderTemplateForMap, plugin.go:336-346.
BindFuncs(t) ==
    /\ stack[t] # <<>> /\ Top(t).pc = "bind"
    /\ funcMap' = Bind(funcMap, Top(t).queries)
    /\ stack' = SetTop(t, [Top(t) EXCEPT !.pc = "compile"])
    /\ UNCHANGED <<pc, query, infos, idx, errs, stdout, done, renders, fnVars>>

\* renderTemplateForMap, plugin.go:347-352: getParsedTemplates copies the
\* function map into the new template (Funcs), then the rule is selected.
Compile(t) ==
    /\ stack[t] # <<>> /\ Top(t).pc = "compile"
    /\ \/ stack' = SetTop(t, [Top(t) EXCEPT !.pc = "ret",
                                !.err = Err("Failed reading template")])
       \/ stack' = SetTop(t, [Top(t) EXCEPT
                                !.pc = "exec",
                                !.tmpl = <<getFuncMap(funcMap)>>,
                                !.rule = findTemplateName(RegisteredRules, Top(t).obj.kind),
                                !.executed = TRUE])
    /\ UNCHANGED <<funcMap, pc, query, infos, idx, errs, stdout, done, renders, fnVars>>

\* The objects an includeObj call resolves, already in the order
\* NewRuntimeSorter leaves them in, plugin.go:229-237.  A failed or empty
\* resolution is the empty list; n objects are rendered by the call already.
Included(n) == SeqsUpTo(Objs, MaxRenders - n)

\* ExecuteTemplate, plugin.go:353, reaching a call of data function fn.  The
\* function called is the one the template was compiled with.  A placeholder
\* returns at once; so do the read-only closures (their results only feed
\* the text).  The closures of includeObj and includeOwners (plugin.go:224-257;
\* the template calls includeOwners on objects that have an owner) resolve
\* objects and render each with RenderResource of their own query.
ExecCall(t) ==
    /\ stack[t] # <<>> /\ Top(t).pc = "exec"
    /\ \E fn \in DataFuncs :
         LET via == Top(t).tmpl[1][fn]
             f == [Top(t) EXCEPT !.call = <<[fn |-> fn, via |-> via]>>]
         IN  IF via.bound /\ fn \in {"includeObj", "includeOwners"}
             THEN \E objs \in Included(renders[t]) :
                    /\ stack' = SetTop(t, [f EXCEPT !.pc = "include",
                                                    !.pending = objs,
                                                    !.inclOut = <<>>])
                    /\ renders' = [renders EXCEPT ![t] = @ + Len(objs)]
             ELSE /\ stack' = SetTop(t, f)
                  /\ UNCHANGED renders
    /\ UNCHANGED <<funcMap, pc, query, infos, idx, errs, stdout, done, fnVars>>

\* GetIncludeObjFunc, plugin.go:240-241: the next object is rendered by
\* RenderResource of the closure's query.
IncludeNext(t) ==
    /\ stack[t] # <<>> /\ Top(t).pc = "include" /\ Top(t).pending # <<>>
    /\ \E conv \in ConvOutcomes :
         LET q == Top(t).call[1].via.q
             parent == [Top(t) EXCEPT !.pending = Tail(@)]
         IN  stack' = [stack EXCEPT ![t] =
                 Append(Pop(stack[t]), parent)
                 \o <<RenderResourceEntry(q, Head(Top(t).pending), conv)>>]
    /\ UNCHANGED <<funcMap, pc, query, infos, idx, errs, stdout, done, renders, fnVars>>

\* GetIncludeObjFunc, plugin.go:244: the text is returned to the template.
IncludeReturn(t) ==
    /\ stack[t] # <<>> /\ Top(t).pc = "include" /\ Top(t).pending = <<>>
    /\ stack' = SetTop(t, [Top(t) EXCEPT !.pc = "exec",
                                         !.out = @ \o Top(t).inclOut,
                                         !.inclOut = <<>>])
    /\ UNCHANGED <<funcMap, pc, query, infos, idx, errs, stdout, done, renders, fnVars>>

\* ExecuteTemplate returns, plugin.go:353: the rule's text is written, or the
\* execution stopped on an error with whatever was written before it.
ExecuteReturn(t) ==
    /\ stack[t] # <<>> /\ Top(t).pc = "exec"
    /\ \/ stack' = SetTop(t, [Top(t) EXCEPT !.pc = "ret", !.call = <<>>,
                                            !.out = Append(@, Top(t).rule)])
       \/ stack' = SetTop(t, [Top(t) EXCEPT !.pc = "ret", !.call = <<>>,
                                            !.err = Err("template: error calling")])
    /\ UNCHANGED <<funcMap, pc, query, infos, idx, errs, stdout, done, renders, fnVars>>

\* RenderResource returns to GetIncludeObjFunc, plugin.go:241-242: the error
\* is dropped and the text appended after a newline.
RenderResourceReturnsToInclude(t) ==
    /\ Len(stack[t]) > 1 /\ Top(t).pc = "ret"
    /\ LET below == stack[t][Len(stack[t]) - 1]
           parent == [below EXCEPT !.inclOut = @ \o <<"\n">> \o Top(t).out]
       IN  stack' = [stack EXCEPT ![t] = Append(Pop(Pop(stack[t])), parent)]
    /\ UNCHANGED <<funcMap, pc, query, infos, idx, errs, stdout, done, renders, fnVars>>

\* What PrintRenderedResource writes, plugin.go:286.
Printf(renderOutput) == <<"\n">> \o renderOutput \o <<"\n">>

\* PrintRenderedResourceInfos, plugin.go:109-111.
AppendErrStopAfterFirst(allRenderErrs, err) ==
    IF allRenderErrs = <<>> THEN err ELSE allRenderErrs

AppendErr(allRenderErrs, err) ==
    IF err # NoErr THEN allRenderErrs \o err ELSE allRenderErrs

\* What the model remembers of a finished top-level render.
Finished(f) ==
    [kind |-> f.obj.kind, invoked |-> f.invoked, executed |-> f.executed,
     out |-> f.out, err |-> f.err]

\* RenderResource returns to PrintRenderedResource, which prints and returns
\* to the loop of PrintRenderedResourceInfos, plugin.go:283-287 and 108-112.
RenderResourceReturnsToPrint(t) ==
    /\ pc[t] = "loop" /\ Len(stack[t]) = 1 /\ Top(t).pc = "ret"
    /\ stdout' = [stdout EXCEPT ![t] = Append(@, Printf(Top(t).out))]
    /\ errs' = [errs EXCEPT ![t] = AppendErr(@, Top(t).err)]
    /\ done' = [done EXCEPT ![t] = Append(@, Finished(Top(t)))]
    /\ idx' = [idx EXCEPT ![t] = @ + 1]
    /\ stack' = [stack EXCEPT ![t] = <<>>]
    /\ UNCHANGED <<funcMap, pc, query, infos, renders, fnVars>>

\* RenderFile, plugin.go:320-328: the manifest is parsed (it holds a kind)
\* and renderTemplateForMap is called without a query.
RenderFile(t) ==
    /\ pc[t] = "idle"
    /\ \/ /\ errs' = [errs EXCEPT ![t] = Err("Failed getting JSON for object")]
          /\ pc' = [pc EXCEPT ![t] = "failedParse"]
          /\ UNCHANGED <<stack, renders>>
       \/ \E obj \in Objs :
            /\ stack' = [stack EXCEPT ![t] = <<NewFrame(<<>>, obj, "bind")>>]
            /\ pc' = [pc EXCEPT ![t] = "file"]
            /\ renders' = [renders EXCEPT ![t] = Len(stack'[t])]
            /\ UNCHANGED errs
    /\ UNCHANGED <<funcMap, query, infos, idx, stdout, done, fnVars>>

\* RenderFile returns, plugin.go:329-332.
RenderFileReturn(t) ==
    /\ pc[t] = "file" /\ Len(stack[t]) = 1 /\ Top(t).pc = "ret"
    /\ errs' = [errs EXCEPT ![t] = Top(t).err]
    /\ done' = [done EXCEPT ![t] =
                  <<[Finished(Top(t)) EXCEPT
                       !.out = IF Top(t).err # NoErr THEN <<>> ELSE @]>>]
    /\ stack' = [stack EXCEPT ![t] = <<>>]
    /\ pc' = [pc EXCEPT ![t] = "returnedFile"]
    /\ UNCHANGED <<funcMap, query, infos, idx, stdout, renders, fnVars>>

\* Where an exported call has returned: PrintRenderedQueriedResources at
\* plugin.go:119 and 121, RenderFile at plugin.go:325 and 330-332.
Returned == {"failedQuery", "returnedAll", "failedParse", "returnedFile"}

\* The caller has its result; the thread is free for the next call.  The
\* process, and with it funcMap, lives on.
CallerReturns(t) ==
    /\ pc[t] \in Returned
    /\ pc' = [pc EXCEPT ![t] = "idle"]
    /\ query' = [query EXCEPT ![t] = NoQuery]
    /\ infos' = [infos EXCEPT ![t] = <<>>]
    /\ idx' = [idx EXCEPT ![t] = 1]
    /\ errs' = [errs EXCEPT ![t] = <<>>]
    /\ stdout' = [stdout EXCEPT ![t] = <<>>]
    /\ done' = [done EXCEPT ![t] = <<>>]
    /\ renders' = [renders EXCEPT ![t] = 0]
    /\ UNCHANGED <<funcMap, stack, fnVars>>

\* The steps in which the environment chooses what a call is made on or what
\* the cluster holds.
EnvStep(t) ==
    \/ PrintRenderedQueriedResources(t)
    \/ RenderFile(t)
    \/ ExecCall(t)

\* The other steps of the code.
ProgStep(t) ==
    \/ PrintRenderedResource(t)
    \/ PrintRenderedResourceInfosReturn(t)
    \/ Augment(t)
    \/ BindFuncs(t)
    \/ Compile(t)
    \/ IncludeNext(t)
    \/ IncludeReturn(t)
    \/ ExecuteReturn(t)
    \/ RenderResourceReturnsToInclude(t)
    \/ RenderResourceReturnsToPrint(t)
    \/ RenderFileReturn(t)
    \/ CallerReturns(t)

Step(t) == EnvStep(t) \/ ProgStep(t)

NoFn == [fn |-> "none"]

(***************************************************************************)
(* Spec: one caller, calls made one after the other, as the command does.  *)
(***************************************************************************)
Init ==
    /\ InitProc
    /\ args = NoFn /\ ret = [applied |-> FALSE]

Next == Step("t1")

Spec == Init /\ [][Next]_vars

(***************************************************************************)
(* SpecConc: two callers in one process, each with calls of its own.       *)
(***************************************************************************)
\* The scenario: each caller has one query of its own, which resolves at
\* most one object; every object is a Node.
ConcQuery(t) ==
    [namespace |-> IF t = "t1" THEN "" ELSE "prod", allNamespaces |-> FALSE]

ConcScenario ==
    \A t \in Threads :
        /\ query[t] \in {NoQuery, ConcQuery(t)}
        /\ Len(infos[t]) <= 1
        /\ \A i \in 1..Len(infos[t]) : infos[t][i].kind = "Node"
        /\ \A i \in 1..Len(stack[t]) :
              /\ stack[t][i].obj.kind = "Node"
              /\ \A j \in 1..Len(stack[t][i].pending) :
                    stack[t][i].pending[j].kind = "Node"

NextConc == \E t \in Threads : (EnvStep(t) /\ ConcScenario') \/ ProgStep(t)

SpecConc == Init /\ [][NextConc]_vars

(***************************************************************************)
(* SpecFn: the pure functions applied to every input within the bounds.    *)
(***************************************************************************)
InitFn ==
    /\ InitProc
    /\ args \in FnInputs /\ ret = [applied |-> FALSE]

NextFn ==
    \/ ApplyIsSubset
    \/ ApplyFindTemplateName
    \/ ApplyKubeGetServicesMatchingPod
    \/ ApplyDeployment

SpecFn == InitFn /\ [][NextFn]_vars

(***************************************************************************)
(* Properties.                                                             *)
(***************************************************************************)
FnApplied(fn) == ret.applied /\ args.fn = fn

\* C1: isSubset(a, b) is true if and only if every key present in a is also
\* present in b with an equal value (empty-string values and keys absent
\* from b included).
IsSubsetIffContained ==
    FnApplied("isSubset") =>
        (ret.val <=> \A k \in DOMAIN args.a :
                        k \in DOMAIN args.b /\ args.b[k] = args.a[k])

\* C2: findTemplateName always resolves: it returns the kind itself when a
\* rule of that name is registered, and "DefaultResource" when none is.
FindTemplateNameResolves ==
    FnApplied("findTemplateName") =>
        /\ args.kind \in args.tmpl => ret.val = args.kind
        /\ args.kind \notin args.tmpl => ret.val = "DefaultResource"

FindTemplateNameFellBack ==
    /\ FnApplied("findTemplateName")
    /\ args.kind \notin args.tmpl /\ args.kind # "DefaultResource"
    /\ args.tmpl # {}
    /\ ret.val = "DefaultResource"

\* C8: kubeGetServicesMatchingPod never returns a Service of type
\* ExternalName, whatever its selector, and every Service it returns has a
\* selector isSubset judges a subset of the Pod's labels.
ServicesMatchingPodSkipsExternalName ==
    FnApplied("kubeGetServicesMatchingPod") =>
        \A i \in 1..Len(ret.val) :
            /\ ret.val[i].type # "ExternalName"
            /\ isSubset(ret.val[i].selector, args.podMap.labels)

ExternalNameWithMatchingSelectorSkipped ==
    /\ FnApplied("kubeGetServicesMatchingPod")
    /\ \E i \in 1..Len(args.svcItems) :
          /\ args.svcItems[i].type = "ExternalName"
          /\ args.svcItems[i].selector = EmptyMap
    /\ \E i \in 1..Len(args.svcItems) :
          /\ args.svcItems[i].type = "ClusterIP"
          /\ isSubset(args.svcItems[i].selector, args.podMap.labels)
    /\ Len(ret.val) = 1

ThreeBanners == {"Outage", "Not Ready Replicas", "Unavailable Replicas"}

\* C6: a Deployment render emits at most one of the banners Outage, Not
\* Ready Replicas and Unavailable Replicas, and whenever status.readyReplicas
\* is zero or absent the banner emitted is Outage, rollout done or not.
DeploymentBannersExclusive ==
    FnApplied("Deployment") =>
        /\ Cardinality({i \in 1..Len(ret.val) : ret.val[i].banner \in ThreeBanners}) <= 1
        /\ Default0(args.status.readyReplicas) = 0 =>
              /\ Len(ret.val) = 1
              /\ ret.val[1].banner = "Outage"

OutageWithOtherConditionsMet ==
    /\ FnApplied("Deployment")
    /\ args.status.replicas = <<MaxReplicas>>
    /\ args.status.readyReplicas = <<0>>
    /\ Truth(args.status.unavailableReplicas)
    /\ args.rolloutDone
    /\ ret.val = <<[banner |-> "Outage"]>>

\* C7: the Not Ready Replicas banner is emitted only when the rollout is done
\* and readyReplicas < replicas, its number is replicas - readyReplicas (at
\* least 1); and when the rollout is done and 0 < readyReplicas < replicas it
\* is emitted as the only banner.
NotReadyBannerOnlyWhenReadyLess ==
    FnApplied("Deployment") =>
        LET replicas == Default0(args.status.replicas)
            readyReplicas == Default0(args.status.readyReplicas)
        IN  /\ \A i \in 1..Len(ret.val) :
                  ret.val[i].banner = "Not Ready Replicas" =>
                      /\ args.rolloutDone
                      /\ readyReplicas < replicas
                      /\ ret.val[i].n = replicas - readyReplicas
                      /\ ret.val[i].n >= 1
            /\ (args.rolloutDone /\ 0 < readyReplicas /\ readyReplicas < replicas) =>
                  ret.val = <<[banner |-> "Not Ready Replicas",
                               n |-> replicas - readyReplicas]>>

Augmentors ==
    {"includePodDetailsOnNode", "includeNodeStatsSummary", "includePodMetrics",
     "includeStatefulSetDiff", "includeIngressServices"}

AugmentorFailed(r) == r.err # NoErr /\ r.err[1].msg \in Augmentors

RECURSIVE ErrsOf(_)
ErrsOf(rs) == IF rs = <<>> THEN <<>> ELSE Head(rs).err \o ErrsOf(Tail(rs))

\* What C3 says of one render r, finished or under way.
StoppedAtFirstFailure(r) ==
    LET functions == kindInjectFuncMap(r.kind)
    IN  /\ Len(r.invoked) <= Len(functions)
        /\ \A j \in 1..Len(r.invoked) : r.invoked[j] = functions[j]
        /\ AugmentorFailed(r) =>
              /\ r.invoked[Len(r.invoked)] = r.err[1].msg
              /\ ~r.executed
              /\ r.out = <<>>
              /\ Len(r.err) = 1
        /\ (r.kind = "Node" /\ r.err = Err("includePodDetailsOnNode")) =>
              r.invoked = <<"includePodDetailsOnNode">>

\* C3: augmentors run in registration order and the first failure stops the
\* list: no later augmentor of that object is invoked, its rule is not
\* executed, and exactly one error is produced for it (for a Node: a failed
\* pod listing means node stats is never invoked).
FirstAugmentorFailureStops ==
    \A t \in Threads :
        /\ \A i \in 1..Len(done[t]) : StoppedAtFirstFailure(done[t][i])
        /\ \A i \in 1..Len(stack[t]) : StoppedAtFirstFailure(Finished(stack[t][i]))
        /\ (/\ pc[t] \in {"loop", "returnedAll"}
            /\ \E i \in 1..Len(done[t]) : AugmentorFailed(done[t][i])) =>
              Len(errs[t]) = Cardinality({j \in 1..Len(done[t]) :
                                            done[t][j].err # NoErr})

NodePodListingFailed ==
    \E t \in Threads :
        /\ pc[t] = "returnedAll"
        /\ \E i \in 1..Len(done[t]) :
              /\ done[t][i].kind = "Node"
              /\ done[t][i].err = Err("includePodDetailsOnNode")
              /\ errs[t] = done[t][i].err

\* C4: PrintRenderedQueriedResources processes every resolved object exactly
\* once, in order, whatever failed before it: it writes one report per
\* object, each wrapped in a leading and a trailing newline (also when the
\* render failed), and returns exactly one error per failed object, in
\* object order, none when no object failed.
EveryObjectProcessedOnce ==
    \A t \in Threads :
        pc[t] \in {"loop", "returnedAll"} =>
            /\ Len(done[t]) = idx[t] - 1
            /\ Len(done[t]) <= Len(infos[t])
            /\ pc[t] = "returnedAll" => Len(done[t]) = Len(infos[t])
            /\ \A i \in 1..Len(done[t]) : done[t][i].kind = infos[t][i].kind
            /\ infos[t] # <<>> =>
                  /\ Len(stdout[t]) = Len(done[t])
                  /\ \A i \in 1..Len(done[t]) :
                        LET w == stdout[t][i]
                        IN  /\ Len(w) = Len(done[t][i].out) + 2
                            /\ w[1] = "\n" /\ w[Len(w)] = "\n"
                            /\ SubSeq(w, 2, Len(w) - 1) = done[t][i].out
            /\ errs[t] = ErrsOf(done[t])

SecondObjectRenderedAfterFailure ==
    \E t \in Threads :
        /\ pc[t] = "returnedAll" /\ Len(done[t]) = 2
        /\ done[t][1].err # NoErr /\ done[t][1].out = <<>>
        /\ done[t][2].err = NoErr /\ done[t][2].out # <<>>
        /\ Len(errs[t]) = 1 /\ Len(stdout[t]) = 2

\* C9: when the query resolves no object, PrintRenderedQueriedResources
\* returns no error and renders nothing; the notice is "No resources found."
\* unless a namespace is set and allNamespaces is false, the only case with
\* the namespace-qualified notice.  When the query itself fails, nothing is
\* rendered and exactly one error is returned.
EmptyResultIsNotAnError ==
    \A t \in Threads :
        /\ (pc[t] \in {"loop", "returnedAll"} /\ infos[t] = <<>>) =>
              /\ errs[t] = <<>> /\ done[t] = <<>> /\ stack[t] = <<>>
              /\ Len(stdout[t]) = 1
              /\ (query[t].namespace = "" /\ ~query[t].allNamespaces) =>
                    stdout[t][1] = <<"No resources found.\n">>
              /\ stdout[t][1] # <<"No resources found.\n">> =>
                    /\ query[t].namespace # "" /\ ~query[t].allNamespaces
                    /\ stdout[t][1] =
                         <<"No resources found in ", query[t].namespace, " namespace\n">>
              /\ (query[t].namespace # "" /\ query[t].allNamespaces) =>
                    stdout[t][1] = <<"No resources found.\n">>
        /\ pc[t] = "failedQuery" =>
              /\ Len(errs[t]) = 1
              /\ done[t] = <<>> /\ stack[t] = <<>> /\ stdout[t] = <<>>

NothingFoundWithoutNamespace ==
    \E t \in Threads :
        /\ pc[t] = "returnedAll" /\ infos[t] = <<>>
        /\ query[t] = [namespace |-> "", allNamespaces |-> FALSE]
        /\ stdout[t] = << <<"No resources found.\n">> >>
        /\ errs[t] = <<>>

\* C5: RenderFile never reads the cluster: in every state of the process,
\* also after PrintRenderedQueriedResources has run in it, the template of a
\* local manifest is executed with every data function a no-op: no call it
\* makes is served by a closure bound to a query.
RenderFileUsesNoOps ==
    \A t \in Threads : \A i \in 1..Len(stack[t]) :
        LET f == stack[t][i]
        IN  (Len(f.queries) = 0 /\ f.call # <<>>) => f.call[1].via = Stub

\* C10: function bindings do not leak between queries: every data-function
\* call made while rendering an object of a query, nested inline renders
\* included, uses the functions bound to that query, also when the render
\* passes of two queries interleave between rebinding and compilation.
BindingsScopedToQuery ==
    \A t \in Threads : \A i \in 1..Len(stack[t]) :
        LET f == stack[t][i]
        IN  (Len(f.queries) > 0 /\ f.call # <<>>) =>
               f.call[1].via = BoundTo(f.queries[1])

====
